---- MODULE Spec2Model ----
(***************************************************************************)
(* Model of google_API_scraper.py: the population-tiered search of the     *)
(* places API (direct, paginated, grid), the global deduplication by       *)
(* place_id, the detail lookups and the result cap of the main loop.       *)
(*                                                                         *)
(* Units: latitudes and longitudes are in thousandths of a degree, so      *)
(* GRID_STEP_DEGREES = 0.045 is 45.  A search result is modelled by its    *)
(* place_id (the only field of a result the script reads); NoId is the     *)
(* None that result.get("place_id") yields for a result without one.       *)
(***************************************************************************)
EXTENDS Integers, Sequences, FiniteSets, TLC

\* ---- configuration constants (lines 5-22) ----
POPULATION_MIN_THRESHOLD == 100000
POPULATION_PAGINATION_MIN == 1000000
POPULATION_PAGINATION_MAX == 5000000
POPULATION_GRID_SEARCH_MIN == 5000001
GRID_STEP_DEGREES == 45
MAX_RESULTS_PER_CITY == 60
ENABLE_LOGGING == TRUE
SAVE_RESULTS_TO_JSON == TRUE

\* ---- bounds of the model ----
MaxPlaces == 2
MaxNonEmptyPages == 2

\* ---- Python's None in its several places ----
NoId == 0
NoToken == 0
NoError == "None"
NoPopulation == 0 - 1
NoResponse == [results |-> <<>>, next_page_token |-> NoToken, error_message |-> NoError]
NoPlace == [city |-> 0, population |-> NoPopulation, lat |-> 0, lng |-> 0]

\* ---- inputs ----
Populations ==
    { NoPopulation,
      POPULATION_MIN_THRESHOLD - 1, POPULATION_MIN_THRESHOLD,
      POPULATION_PAGINATION_MIN - 1, POPULATION_PAGINATION_MIN,
      POPULATION_PAGINATION_MAX, POPULATION_GRID_SEARCH_MIN }

\* the rows of the input sheet: city is the row's number, each city at a
\* point of its own (the first one at 39.78, -89.65)
LatOf(n) == 39780 - (n - 1) * 20000
LngOf(n) == (n - 1) * 30000 - 89650
PlaceRecords(n) ==
    { [city |-> n, population |-> p, lat |-> LatOf(n), lng |-> LngOf(n)] :
        p \in Populations }

\* the result lists of a search response, each result given by its place_id:
\* none, a short one with repeated and missing place_ids, and one that is
\* longer than the cap
DupList == <<1, 2, 1, NoId, 3, 2, NoId>>
BigList == [n \in 1..(MAX_RESULTS_PER_CITY + 1) |-> n]
ResultLists == { <<>>, DupList, BigList }

Errors == { "REQUEST_DENIED" }

\* the JSON bodies the c-th search call of a place can return, when n
\* responses with results came before: the API issues a fresh page token
\* with each page, or none
SearchResponses(n, c) ==
    { r \in [results : ResultLists,
             next_page_token : {NoToken, c},
             error_message : {NoError} \cup Errors] :
        r.results = <<>> \/ n < MaxNonEmptyPages }

\* the "result" of a details body: absent ({}), or the place's fields
NoDetails == [name |-> NoId, lat |-> NoId]
DetailPayloads(id) ==
    IF id = NoId THEN { NoDetails }
    ELSE IF id = 3 THEN { NoDetails, [name |-> id, lat |-> id] }
    ELSE { [name |-> id, lat |-> id] }

VARIABLES
    ENABLE_DEDUPLICATION, \* line 14, a configuration toggle
    API_KEY,              \* TRUE iff GOOGLE_API_KEY is set
    numPlaces,            \* len(us_places)
    idx,                  \* places the for loop has taken so far
    place,                \* the loop variable of line 130
    pc,                   \* position of the script
    branch,               \* the branch of lines 132-146 taken for place
    response,             \* fetch_with_pagination / fetch_grid: response
    paged_response,       \* fetch_with_pagination: paged_response
    token,                \* fetch_with_pagination: token
    all_results,          \* fetch_*: all_results
    k,                    \* loop counter of range(2) / index into the grid
    raw_results, error,   \* lines 139-146
    i,                    \* position of the for loop of line 158
    place_id,             \* line 159
    seen_place_ids,       \* line 49
    results,              \* line 50
    log,                  \* lines written to LOG_FILE_PATH
    snapshots,            \* cities whose raw JSON was saved
    excel,                \* number of times the final table was written
    exception,            \* the exception that ended the process, if any
    lookups,              \* history: the get_place_details calls made
    trace,                \* history: external calls of the current search
    received,             \* history: the responses of the current search
                          \* whose token or error message the script reads
    firstSeen,            \* history: distinct place_ids line 159 has read,
                          \* in the order of their first reading
    attempts,             \* HTTP requests made by the last API call
    nonEmptyPages         \* search responses so far that carried results

vars == << ENABLE_DEDUPLICATION, API_KEY, numPlaces, idx, place, pc, branch,
           response, paged_response, token, all_results, k, raw_results, error,
           i, place_id, seen_place_ids, results, log, snapshots, excel,
           exception, lookups, trace, received, firstSeen, attempts,
           nonEmptyPages >>

cfgVars == << ENABLE_DEDUPLICATION, API_KEY, numPlaces >>
fetchVars == << response, paged_response, token, all_results, k >>
outVars == << seen_place_ids, results, lookups, firstSeen >>
callVars == << trace, received >>

\* ---- pure helpers ----

Range(s) == { s[j] : j \in DOMAIN s }
Last(s) == s[Len(s)]

\* place.get("population", 0)
PopulationOf(p) == IF p.population = NoPopulation THEN 0 ELSE p.population

\* line 132 with <= for <
StrategyOfInclusive(pop) ==
    IF pop <= POPULATION_MIN_THRESHOLD THEN "Skip"
    ELSE IF POPULATION_PAGINATION_MIN <= pop /\ pop <= POPULATION_PAGINATION_MAX
         THEN "Paginated"
    ELSE IF pop >= POPULATION_GRID_SEARCH_MIN THEN "Grid"
    ELSE "Direct"

\* the if / elif chain of lines 132-146
StrategyOf(pop) ==
    IF pop < POPULATION_MIN_THRESHOLD THEN "Skip"
    ELSE IF POPULATION_PAGINATION_MIN <= pop /\ pop <= POPULATION_PAGINATION_MAX
         THEN "Paginated"
    ELSE IF pop >= POPULATION_GRID_SEARCH_MIN THEN "Grid"
    ELSE "Direct"

\* f"{lat},{lng}"
Location(lat, lng) == << lat, lng >>

\* line 114 with the centre offset lost
OffsetsNoCentre == << 0 - GRID_STEP_DEGREES, GRID_STEP_DEGREES, GRID_STEP_DEGREES >>

\* generate_grid
Offsets == << 0 - GRID_STEP_DEGREES, 0, GRID_STEP_DEGREES >>

generate_grid(center_lat, center_lng) ==
    [ n \in 1..(Len(Offsets) * Len(Offsets)) |->
        << center_lat + Offsets[((n - 1) \div Len(Offsets)) + 1],
           center_lng + Offsets[((n - 1) % Len(Offsets)) + 1] >> ]

\* all_results.extend(response.get("results", []))
Extend(all, r) == all \o r.results

\* the reasons of lines 133, 149 and 153
BelowThreshold == << "Population below threshold" >>
ApiError(e) == << "API error", e >>
NoResults == << "No results returned" >>

\* log_skip with the test of line 63 inverted
LogSkipOff(l, p, reason) ==
    IF ~ ENABLE_LOGGING THEN Append(l, [city |-> p.city, reason |-> reason]) ELSE l

\* log_skip
LogSkip(l, p, reason) ==
    IF ENABLE_LOGGING THEN Append(l, [city |-> p.city, reason |-> reason]) ELSE l

\* save_raw_json
SaveRawJson(s, p) == IF SAVE_RESULTS_TO_JSON THEN s \cup {p.city} ELSE s

\* line 160 without the membership test
IsDuplicateNever(id, seen) == FALSE

\* line 160 without the toggle
IsDuplicateAlways(id, seen) == id \in seen

\* line 160 with a missing place_id never taken for a duplicate
IsDuplicateOfId(id, seen) == ENABLE_DEDUPLICATION /\ id # NoId /\ id \in seen

\* line 160
IsDuplicate(id, seen) == ENABLE_DEDUPLICATION /\ id \in seen

\* line 162 left out
RememberNothing(seen, id) == seen

\* line 162
Remember(seen, id) == seen \cup {id}

\* line 183 never true
CapReachedNever(rows) == FALSE

\* line 183
CapReached(rows) == Len(rows) >= MAX_RESULTS_PER_CITY

\* lines 168-181
OutputRow(p, details) ==
    [City |-> p.city, Name |-> details.name, Latitude |-> details.lat]

\* range(3) for range(2)
MorePagesThree(n, tok) == n < 3 /\ tok # NoToken

\* range(2) and line 104
MorePages(n, tok) == n < 2 /\ tok # NoToken

\* line 111 reading the last page's response
ErrorOfLastPage(first, last) == last.error_message

\* line 111
ErrorOfPages(first, last) == first.error_message

\* line 142
ErrorOfGrid == NoError

\* The fields of place that are never read again are forgotten: the
\* population once the branch is entered, the coordinates after line 146.
Entered(p) == [p EXCEPT !.population = NoPopulation]
Identity(p) == [p EXCEPT !.population = NoPopulation, !.lat = 0, !.lng = 0]

\* history bookkeeping
Counted(n, r) == IF r.results = <<>> THEN n ELSE n + 1
SearchEvent(location, page_token) ==
    [op |-> "search", location |-> location, page_token |-> page_token]
SleepEvent == [op |-> "sleep", location |-> <<0, 0>>, page_token |-> NoToken]
Lookup(p, id) == [city |-> p.city, place_id |-> id]
FirstSeenAdd(s, id) == IF id \in Range(s) THEN s ELSE Append(s, id)

\* ---- the script ----

Init ==
    /\ ENABLE_DEDUPLICATION \in BOOLEAN
    /\ API_KEY \in BOOLEAN
    /\ numPlaces \in 0..MaxPlaces
    /\ idx = 0
    /\ place = NoPlace
    /\ pc = "start"
    /\ branch = "None"
    /\ response = NoResponse
    /\ paged_response = NoResponse
    /\ token = NoToken
    /\ all_results = <<>>
    /\ k = 0
    /\ raw_results = <<>>
    /\ error = NoError
    /\ i = 0
    /\ place_id = NoId
    /\ seen_place_ids = {}
    /\ results = <<>>
    /\ log = <<>>
    /\ snapshots = {}
    /\ excel = 0
    /\ exception = "None"
    /\ lookups = <<>>
    /\ trace = <<>>
    /\ received = <<>>
    /\ firstSeen = <<>>
    /\ attempts = 0
    /\ nonEmptyPages = 0

\* an exception nobody catches ends the process
Raise(e) ==
    /\ pc' = "crashed"
    /\ exception' = e

\* The values of the current place's search and of its candidate loop are
\* never read again once the place is finished or the process has ended:
\* the model forgets them there.
ForgetSearch ==
    /\ response' = NoResponse
    /\ paged_response' = NoResponse
    /\ token' = NoToken
    /\ all_results' = <<>>
    /\ k' = 0
    /\ trace' = <<>>
    /\ received' = <<>>

ForgetCandidates ==
    /\ raw_results' = <<>>
    /\ error' = NoError
    /\ i' = 0
    /\ place_id' = NoId

\* lines 37-39
Startup ==
    /\ pc = "start"
    /\ IF API_KEY
         THEN pc' = "loop" /\ UNCHANGED exception
         ELSE Raise("EnvironmentError")
    /\ UNCHANGED << cfgVars, idx, place, branch, fetchVars, raw_results, error,
                    i, place_id, outVars, log, snapshots, excel, callVars,
                    attempts, nonEmptyPages >>

\* lines 130-136: the for loop takes the next place and picks its branch
NextPlace ==
    /\ pc = "loop"
    /\ idx < numPlaces
    /\ \E p \in PlaceRecords(idx + 1) :
         /\ place' = p
         /\ idx' = idx + 1
         /\ trace' = <<>>
         /\ received' = <<>>
         /\ branch' = StrategyOf(PopulationOf(p))
         /\ IF branch' = "Skip"
              THEN /\ log' = LogSkip(log, p, BelowThreshold)
                   /\ pc' = "loop"
              ELSE /\ log' = log
                   /\ pc' = branch'
    /\ UNCHANGED << cfgVars, fetchVars, raw_results, error, i, place_id,
                    outVars, snapshots, excel, exception, attempts,
                    nonEmptyPages >>

\* lines 144-146: one search_places call
DirectSearch ==
    /\ pc = "Direct"
    /\ attempts' = 1
    /\ \/ /\ Raise("RequestException")
          /\ ForgetSearch
          /\ UNCHANGED << raw_results, error, nonEmptyPages >>
       \/ \E r \in SearchResponses(nonEmptyPages, 1) :
            /\ trace' = Append(trace, SearchEvent(Location(place.lat, place.lng),
                                                  NoToken))
            /\ received' = Append(received, r)
            /\ UNCHANGED fetchVars
            /\ raw_results' = r.results
            /\ error' = r.error_message
            /\ nonEmptyPages' = Counted(nonEmptyPages, r)
            /\ pc' = "check"
            /\ UNCHANGED exception
    /\ place' = Entered(place)
    /\ UNCHANGED << cfgVars, idx, branch, i, place_id, outVars, log,
                    snapshots, excel >>

\* fetch_with_pagination, lines 98-101
FirstPage ==
    /\ pc = "Paginated"
    /\ attempts' = 1
    /\ \/ /\ Raise("RequestException")
          /\ ForgetSearch
          /\ UNCHANGED nonEmptyPages
       \/ \E r \in SearchResponses(nonEmptyPages, 1) :
            /\ trace' = Append(trace, SearchEvent(Location(place.lat, place.lng),
                                                  NoToken))
            /\ received' = Append(received, r)
            /\ UNCHANGED paged_response
            /\ response' = r
            /\ all_results' = Extend(<<>>, r)
            /\ token' = r.next_page_token
            /\ k' = 0
            /\ nonEmptyPages' = Counted(nonEmptyPages, r)
            /\ pc' = "paging"
            /\ UNCHANGED exception
    /\ place' = Entered(place)
    /\ UNCHANGED << cfgVars, idx, branch, raw_results, error, i,
                    place_id, outVars, log, snapshots, excel >>

\* fetch_with_pagination, lines 103-109, with the sleep of line 106 left out
NextPageUnpaced ==
    /\ pc = "paging"
    /\ MorePages(k, token)
    /\ attempts' = 1
    /\ \/ /\ Raise("RequestException")
          /\ ForgetSearch
          /\ UNCHANGED nonEmptyPages
       \/ \E r \in SearchResponses(nonEmptyPages, k + 2) :
            /\ trace' = Append(trace, SearchEvent(Location(place.lat, place.lng),
                                                  token))
            /\ received' = Append(received, r)
            /\ UNCHANGED response
            /\ paged_response' = r
            /\ all_results' = Extend(all_results, r)
            /\ token' = r.next_page_token
            /\ k' = k + 1
            /\ nonEmptyPages' = Counted(nonEmptyPages, r)
            /\ UNCHANGED << pc, exception >>
    /\ place' = Entered(place)
    /\ UNCHANGED << cfgVars, idx, branch, raw_results, error, i,
                    place_id, outVars, log, snapshots, excel >>

\* fetch_with_pagination, lines 103-109: one turn of the loop
NextPage ==
    /\ pc = "paging"
    /\ MorePages(k, token)
    /\ attempts' = 1
    /\ \/ /\ Raise("RequestException")
          /\ ForgetSearch
          /\ UNCHANGED nonEmptyPages
       \/ \E r \in SearchResponses(nonEmptyPages, k + 2) :
            /\ trace' = trace \o << SleepEvent,
                                    SearchEvent(Location(place.lat, place.lng),
                                                token) >>
            /\ received' = Append(received, r)
            /\ UNCHANGED response
            /\ paged_response' = r
            /\ all_results' = Extend(all_results, r)
            /\ token' = r.next_page_token
            /\ k' = k + 1
            /\ nonEmptyPages' = Counted(nonEmptyPages, r)
            /\ UNCHANGED << pc, exception >>
    /\ place' = Entered(place)
    /\ UNCHANGED << cfgVars, idx, branch, raw_results, error, i,
                    place_id, outVars, log, snapshots, excel >>

\* fetch_with_pagination, line 111, and the assignment of line 139
PagesReturn ==
    /\ pc = "paging"
    /\ ~ MorePages(k, token)
    /\ raw_results' = all_results
    /\ error' = ErrorOfPages(response, paged_response)
    /\ pc' = "check"
    /\ response' = NoResponse
    /\ paged_response' = NoResponse
    /\ token' = NoToken
    /\ all_results' = <<>>
    /\ k' = 0
    /\ UNCHANGED << cfgVars, idx, place, branch, i, place_id, outVars, log,
                    snapshots, excel, exception, callVars, attempts,
                    nonEmptyPages >>

\* fetch_grid, lines 119-123: one turn of the loop
GridPoint ==
    /\ pc = "Grid"
    /\ k < Len(generate_grid(place.lat, place.lng))
    /\ attempts' = 1
    /\ LET pt == generate_grid(place.lat, place.lng)[k + 1]
           ev == SearchEvent(Location(pt[1], pt[2]), NoToken)
       IN \/ /\ Raise("RequestException")
             /\ ForgetSearch
             /\ UNCHANGED nonEmptyPages
          \/ \E r \in SearchResponses(nonEmptyPages, k + 1) :
               /\ response' = r
               /\ UNCHANGED << paged_response, token, received >>
               /\ all_results' = Extend(all_results, r)
               /\ k' = k + 1
               /\ trace' = trace \o << ev, SleepEvent >>
               /\ nonEmptyPages' = Counted(nonEmptyPages, r)
               /\ UNCHANGED << pc, exception >>
    /\ place' = Entered(place)
    /\ UNCHANGED << cfgVars, idx, branch, raw_results, error, i,
                    place_id, outVars, log, snapshots, excel >>

\* fetch_grid, line 124, and lines 141-142
GridReturn ==
    /\ pc = "Grid"
    /\ k = Len(generate_grid(place.lat, place.lng))
    /\ raw_results' = all_results
    /\ error' = ErrorOfGrid
    /\ pc' = "check"
    /\ response' = NoResponse
    /\ all_results' = <<>>
    /\ k' = 0
    /\ UNCHANGED << cfgVars, idx, place, branch, paged_response, token, i,
                    place_id, outVars, log, snapshots, excel, exception,
                    callVars, attempts, nonEmptyPages >>

\* lines 148-156 with save_raw_json of line 156 moved before the tests
CheckResultsSnapshotFirst ==
    /\ pc = "check"
    /\ snapshots' = SaveRawJson(snapshots, place)
    /\ IF error # NoError
         THEN /\ log' = LogSkip(log, place, ApiError(error))
              /\ pc' = "loop"
              /\ ForgetCandidates
         ELSE IF raw_results = <<>>
         THEN /\ log' = LogSkip(log, place, NoResults)
              /\ pc' = "loop"
              /\ ForgetCandidates
         ELSE /\ i' = 1
              /\ pc' = "candidates"
              /\ UNCHANGED << log, raw_results, error, place_id >>
    /\ place' = Identity(place)
    /\ branch' = "None"
    /\ trace' = <<>>
    /\ received' = <<>>
    /\ UNCHANGED << cfgVars, idx, fetchVars, outVars, excel, exception,
                    attempts, nonEmptyPages >>

\* lines 148-156 with the test of line 152 before the test of line 148
CheckResultsEmptyFirst ==
    /\ pc = "check"
    /\ IF raw_results = <<>>
         THEN /\ log' = LogSkip(log, place, NoResults)
              /\ pc' = "loop"
              /\ ForgetCandidates
              /\ UNCHANGED snapshots
         ELSE IF error # NoError
         THEN /\ log' = LogSkip(log, place, ApiError(error))
              /\ pc' = "loop"
              /\ ForgetCandidates
              /\ UNCHANGED snapshots
         ELSE /\ snapshots' = SaveRawJson(snapshots, place)
              /\ i' = 1
              /\ pc' = "candidates"
              /\ UNCHANGED << log, raw_results, error, place_id >>
    /\ place' = Identity(place)
    /\ branch' = "None"
    /\ trace' = <<>>
    /\ received' = <<>>
    /\ UNCHANGED << cfgVars, idx, fetchVars, outVars, excel, exception,
                    attempts, nonEmptyPages >>

\* lines 148-156
CheckResults ==
    /\ pc = "check"
    /\ IF error # NoError
         THEN /\ log' = LogSkip(log, place, ApiError(error))
              /\ pc' = "loop"
              /\ ForgetCandidates
              /\ UNCHANGED snapshots
         ELSE IF raw_results = <<>>
         THEN /\ log' = LogSkip(log, place, NoResults)
              /\ pc' = "loop"
              /\ ForgetCandidates
              /\ UNCHANGED snapshots
         ELSE /\ snapshots' = SaveRawJson(snapshots, place)
              /\ i' = 1
              /\ pc' = "candidates"
              /\ UNCHANGED << log, raw_results, error, place_id >>
    /\ place' = Identity(place)
    /\ branch' = "None"
    /\ trace' = <<>>
    /\ received' = <<>>
    /\ UNCHANGED << cfgVars, idx, fetchVars, outVars, excel, exception,
                    attempts, nonEmptyPages >>

\* lines 158-162: the for loop takes the next result and filters it
Filter ==
    /\ pc = "candidates"
    /\ IF i > Len(raw_results)
         THEN /\ pc' = "loop"
              /\ ForgetCandidates
              /\ UNCHANGED << seen_place_ids, firstSeen >>
         ELSE /\ place_id' = raw_results[i]
              /\ firstSeen' = FirstSeenAdd(firstSeen, raw_results[i])
              /\ UNCHANGED << raw_results, error >>
              /\ IF IsDuplicate(raw_results[i], seen_place_ids)
                   THEN /\ i' = i + 1
                        /\ UNCHANGED << pc, seen_place_ids >>
                   ELSE /\ seen_place_ids' = Remember(seen_place_ids, raw_results[i])
                        /\ pc' = "enrich"
                        /\ UNCHANGED i
    /\ UNCHANGED << cfgVars, idx, place, branch, fetchVars,
                    results, lookups, log, snapshots, excel, exception, callVars,
                    attempts, nonEmptyPages >>

\* line 184 breaks out of the for loop of line 158 only: the for loop of
\* line 130 goes on
AfterBreak == "loop"

\* lines 164-184: the detail lookup, the row and the cap
Enrich ==
    /\ pc = "enrich"
    /\ attempts' = 1
    /\ lookups' = Append(lookups, Lookup(place, place_id))
    /\ \/ /\ Raise("RequestException")
          /\ ForgetCandidates
          /\ UNCHANGED results
       \/ \E details \in DetailPayloads(place_id) :
            /\ results' = Append(results, OutputRow(place, details))
            /\ IF CapReached(results')
                 THEN /\ pc' = AfterBreak
                      /\ ForgetCandidates
                 ELSE /\ pc' = "candidates"
                      /\ i' = i + 1
                      /\ UNCHANGED << raw_results, error, place_id >>
            /\ UNCHANGED exception
    /\ UNCHANGED << cfgVars, idx, place, branch, fetchVars,
                    seen_place_ids, firstSeen, log, snapshots, excel,
                    callVars, nonEmptyPages >>

\* lines 190-194 reached before the loop of line 130 is exhausted
SaveOutputEarly ==
    /\ pc = "loop"
    /\ excel' = excel + 1
    /\ pc' = "done"
    /\ UNCHANGED << cfgVars, idx, place, branch, fetchVars, raw_results, error,
                    i, place_id, outVars, log, snapshots, exception, callVars,
                    attempts, nonEmptyPages >>

\* lines 190-194
SaveOutput ==
    /\ pc = "loop"
    /\ idx = numPlaces
    /\ excel' = excel + 1
    /\ pc' = "done"
    /\ UNCHANGED << cfgVars, idx, place, branch, fetchVars, raw_results, error,
                    i, place_id, outVars, log, snapshots, exception, callVars,
                    attempts, nonEmptyPages >>

Next ==
    \/ Startup
    \/ NextPlace
    \/ DirectSearch
    \/ FirstPage
    \/ NextPage
    \/ PagesReturn
    \/ GridPoint
    \/ GridReturn
    \/ CheckResults
    \/ Filter
    \/ Enrich
    \/ SaveOutput

Spec == Init /\ [][Next]_vars

\* ---- what the claims say ----

Searches(t) == SelectSeq(t, LAMBDA e : e.op = "search")
LookupsOf(city) == SelectSeq(lookups, LAMBDA l : l.city = city)
IdsOf(ls) == [j \in DOMAIN ls |-> ls[j].place_id]

\* the place_ids passed on to enrichment: line 162 has run for them
ForwardedIds ==
    IdsOf(lookups) \o (IF pc = "enrich" THEN << place_id >> ELSE << >>)

\* place holds a freshly taken place whose population is still in it
JustSelected ==
    \/ branch = "Skip"
    \/ pc \in {"Direct", "Paginated", "Grid"} /\ trace = << >>

GivenPopulation == IF place.population = NoPopulation THEN 0 ELSE place.population

DocumentedStrategy(p) ==
    IF p < 100000 THEN "Skip"
    ELSE IF p < 1000000 THEN "Direct"
    ELSE IF p <= 5000000 THEN "Paginated"
    ELSE "Grid"

\* C1: the branch the main loop takes for a place is the one the thresholds
\* give for its population: below 100,000 skip, from 100,000 direct, from
\* 1,000,000 to 5,000,000 paginated, from 5,000,001 grid; every population has
\* exactly one of the four.
C1_StrategySelection ==
    /\ JustSelected =>
         /\ branch = DocumentedStrategy(GivenPopulation)
         /\ branch = "Skip" => pc \in {"loop", "done"}
         /\ branch # "Skip" => pc = branch
    /\ pc = "paging" => branch = "Paginated"
    /\ pc \in {"Direct", "Paginated", "Grid"} => branch = pc
    /\ idx > 0 /\ pc \notin {"loop", "done", "candidates", "enrich", "crashed"}
         => branch \in {"Direct", "Paginated", "Grid"}

C1_Witness == pc = "Paginated" /\ place.population = 5000000

\* C2: with deduplication enabled the place_ids passed on to enrichment over
\* the whole run are the distinct place_ids read so far, each once, in the
\* order in which they were first read; dropping a duplicate writes no log
\* entry, makes no call and raises nothing.
C2_Deduplication ==
    /\ [](ENABLE_DEDUPLICATION => ForwardedIds = firstSeen)
    /\ [][ ( /\ ENABLE_DEDUPLICATION
             /\ pc = "candidates"
             /\ i <= Len(raw_results)
             /\ raw_results[i] \in Range(firstSeen) )
           => ( /\ log' = log
                /\ lookups' = lookups
                /\ results' = results
                /\ pc' = "candidates"
                /\ i' = i + 1 ) ]_vars

C2_Witness ==
    /\ ENABLE_DEDUPLICATION
    /\ pc = "loop"
    /\ snapshots = {1, 2}
    /\ firstSeen = << 1, 2, NoId, 3 >>
    /\ IdsOf(lookups) = << 1, 2, NoId, 3 >>

\* C3: the output never has more than MAX_RESULTS_PER_CITY rows and no more
\* than MAX_RESULTS_PER_CITY detail lookups are ever issued: once the cap is
\* reached nothing more is looked up or appended, for this place or a later one.
C3_GlobalCap ==
    pc # "crashed" =>
        /\ Len(results) <= MAX_RESULTS_PER_CITY
        /\ Len(lookups) <= MAX_RESULTS_PER_CITY

\* C4: a search or detail call never raises on a transport failure: it makes
\* up to 3 attempts and hands back a response or an empty result.
C4_RetryBudget ==
    /\ attempts <= 3
    /\ exception # "RequestException"

\* C5: no exception ends the run once the places are being processed; the
\* only fatal failure is the missing credential.
C5_NoExceptionPerPlace ==
    pc = "crashed" => exception = "EnvironmentError" /\ idx = 0

LeadingTokens(rs) ==
    IF Len(rs) = 0 \/ rs[1].next_page_token = NoToken THEN 0
    ELSE IF Len(rs) = 1 \/ rs[2].next_page_token = NoToken THEN 1
    ELSE IF Len(rs) = 2 \/ rs[3].next_page_token = NoToken THEN 2
    ELSE 3

RECURSIVE Concatenated(_)
Concatenated(rs) ==
    IF rs = << >> THEN << >>
    ELSE Concatenated(SubSeq(rs, 1, Len(rs) - 1)) \o rs[Len(rs)].results

\* C6: when the paginated search of a place returns it has made 1 + min(2, k)
\* search calls, k being the number of leading responses with a next-page
\* token; the first call has no token, each later one the token of the
\* response before it; the candidates are the pages' results in page order.
C6_Pagination ==
    /\ pc = "paging" => Len(Searches(trace)) <= 3
    /\ pc = "check" /\ branch = "Paginated" =>
         LET calls == Searches(trace)
             kk == LeadingTokens(received)
         IN /\ Len(calls) = 1 + (IF kk < 2 THEN kk ELSE 2)
            /\ Len(calls) <= 3
            /\ Len(received) = Len(calls)
            /\ calls[1].page_token = NoToken
            /\ \A j \in 2..Len(calls) :
                 /\ calls[j].page_token # NoToken
                 /\ calls[j].page_token = received[j - 1].next_page_token
            /\ raw_results = Concatenated(received)

C6_Witness ==
    /\ pc = "check"
    /\ branch = "Paginated"
    /\ Len(received) = 3
    /\ \A j \in 1..3 : received[j].next_page_token # NoToken
    /\ raw_results = DupList \o BigList

DocumentedGrid(lat, lng) ==
    { << lat + dx, lng + dy >> : dx \in {0 - 45, 0, 45}, dy \in {0 - 45, 0, 45} }

\* C7: when the grid search of a place returns it has made exactly 9 search
\* calls, one at each point of {-step, 0, +step} x {-step, 0, +step} around
\* the place, none twice; each call appends what it returned to the
\* candidates, in call order, and an empty response appends nothing.
C7_Grid ==
    /\ [](pc = "check" /\ branch = "Grid" =>
            LET calls == Searches(trace)
            IN /\ Len(calls) = 9
               /\ { calls[j].location : j \in 1..Len(calls) }
                    = DocumentedGrid(place.lat, place.lng)
               /\ \A a, b \in 1..Len(calls) :
                    a # b => calls[a].location # calls[b].location
               /\ \A j \in 1..Len(calls) : calls[j].page_token = NoToken)
    /\ [][ /\ pc = "Grid" /\ pc' = "Grid" /\ k' # k
             => /\ k' = k + 1
                /\ all_results' = all_results \o response'.results
                /\ response'.results = << >> => all_results' = all_results
           /\ pc = "Grid" /\ pc' = "check" => k = 9 /\ raw_results' = all_results
         ]_vars

C7_Witness ==
    /\ pc = "check"
    /\ branch = "Grid"
    /\ raw_results = BigList \o DupList

\* C8: a place whose population is below 100,000, or absent, gets exactly one
\* log entry, "Population below threshold", no search call and no detail
\* lookup.
C8_SkipBelowThreshold ==
    JustSelected /\ GivenPopulation < 100000 =>
        /\ pc \in {"loop", "done"}
        /\ trace = << >>
        /\ Len(log) > 0
        /\ Last(log) = [city |-> place.city,
                        reason |-> << "Population below threshold" >>]
        /\ Cardinality({ j \in DOMAIN log : log[j].city = place.city }) = 1
        /\ LookupsOf(place.city) = << >>
        /\ \A j \in DOMAIN results : results[j].City # place.city
        /\ place.city \notin snapshots

C8_Witness ==
    /\ branch = "Skip"
    /\ place.population = NoPopulation
    /\ idx = 2
    /\ Len(lookups) > 0

\* C9 as claimed: with deduplication disabled seen_place_ids stays empty.
C9_SeenSetStaysEmpty ==
    ~ ENABLE_DEDUPLICATION => seen_place_ids = {}

\* C9 amended: with deduplication disabled no candidate is filtered out: every
\* candidate the loop reads is looked up, repeated place_ids included; the
\* place_ids are still put into seen_place_ids, which is never consulted.
C9_NoFiltering ==
    ~ ENABLE_DEDUPLICATION =>
        /\ pc \in {"candidates", "enrich"} =>
             IdsOf(LookupsOf(place.city)) = SubSeq(raw_results, 1, i - 1)
        /\ pc = "enrich" => place_id = raw_results[i]
        /\ seen_place_ids = Range(firstSeen)
        /\ Len(results) <= Len(lookups)
        /\ Len(lookups) <= Len(results) + 1

C9_Witness ==
    /\ ~ ENABLE_DEDUPLICATION
    /\ pc = "candidates"
    /\ raw_results = DupList
    /\ i = Len(DupList) + 1
    /\ Len(results) = Len(DupList)

\* an error message is surfaced for the place whose search has just returned
Surfaced ==
    /\ branch \in {"Direct", "Paginated"}
    /\ received[1].error_message # NoError

\* C10: a place is skipped with an "API error" entry exactly when its direct
\* response, or the first page of its paginated search, carried an error
\* message - never for a later page alone, never for a grid search; such a
\* place gets no snapshot, no detail lookup and no row, whatever results the
\* response carried.
C10_ApiErrorSkip ==
    /\ [](pc = "check" => ((error # NoError) <=> Surfaced))
    /\ [][ pc = "check" =>
             /\ Surfaced <=> /\ Len(log') = Len(log) + 1
                             /\ Last(log').city = place.city
                             /\ Last(log').reason[1] = "API error"
             /\ Surfaced => Last(log').reason[2] = received[1].error_message
             /\ Surfaced => /\ pc' = "loop"
                            /\ results' = results
                            /\ lookups' = lookups
                            /\ snapshots' = snapshots ]_vars
    /\ [](\A j \in DOMAIN log :
            log[j].reason[1] = "API error" =>
                /\ LookupsOf(log[j].city) = << >>
                /\ \A m \in DOMAIN results : results[m].City # log[j].city
                /\ log[j].city \notin snapshots)

C10_Witness ==
    /\ pc = "loop"
    /\ idx = 1
    /\ Len(log) = 1
    /\ log[1].reason[1] = "API error"
    /\ nonEmptyPages = 2
    /\ results = << >>

\* C11: a place whose search returned no candidates and no error message is
\* skipped with exactly one log entry, "No results returned", without
\* snapshot, detail lookup or row; when the search returned an error message
\* and no candidates, the entry is the "API error" one.
C11_NoResultsSkip ==
    /\ [][ pc = "check" /\ raw_results = << >> =>
             /\ pc' = "loop"
             /\ Len(log') = Len(log) + 1
             /\ Last(log').city = place.city
             /\ error = NoError =>
                  Last(log').reason = << "No results returned" >>
             /\ error # NoError =>
                  Last(log').reason = << "API error", error >>
             /\ results' = results
             /\ lookups' = lookups
             /\ snapshots' = snapshots
             /\ seen_place_ids' = seen_place_ids ]_vars
    /\ [](\A j \in DOMAIN log :
            log[j].reason = << "No results returned" >> =>
                /\ \A m \in DOMAIN log : log[m].city = log[j].city => m = j
                /\ LookupsOf(log[j].city) = << >>
                /\ \A m \in DOMAIN results : results[m].City # log[j].city
                /\ log[j].city \notin snapshots)

C11_Witness ==
    /\ pc = "loop"
    /\ idx = 2
    /\ log = << [city |-> 2, reason |-> << "No results returned" >>] >>
    /\ snapshots = {1}
    /\ Len(results) > 0

\* C12: a detail lookup that fails or returns an empty payload neither drops
\* the row nor ends the place: every lookup issued has its row, in the order
\* of the lookups, with the place's city, and with name and coordinates
\* absent when the payload is empty.
C12_RowPerLookup ==
    /\ Len(results) = Len(lookups)
    /\ \A j \in DOMAIN lookups :
         j <= Len(results) =>
             /\ results[j].City = lookups[j].city
             /\ results[j].Name \in {NoId, lookups[j].place_id}
             /\ results[j].Name = NoId => results[j].Latitude = NoId

\* C13: seen_place_ids only grows; every detail lookup is for a place_id that
\* was in seen_place_ids before the lookup was issued; with deduplication
\* enabled each place_id is put in once, when it is not yet in the set, and
\* one lookup follows each insertion.
C13_SeenBeforeLookup ==
    /\ [][ /\ seen_place_ids \subseteq seen_place_ids'
           /\ lookups' # lookups =>
                /\ lookups' = Append(lookups, Last(lookups'))
                /\ Last(lookups').place_id \in seen_place_ids
           /\ ENABLE_DEDUPLICATION /\ pc # "enrich" /\ pc' = "enrich" =>
                /\ place_id' \notin seen_place_ids
                /\ seen_place_ids' = seen_place_ids \cup {place_id'}
                /\ lookups' = lookups
           /\ ENABLE_DEDUPLICATION /\ seen_place_ids' # seen_place_ids =>
                pc' = "enrich"
         ]_vars
    /\ [](\A j \in DOMAIN lookups : lookups[j].place_id \in seen_place_ids)
    /\ [](ENABLE_DEDUPLICATION =>
            Cardinality(seen_place_ids)
                = Len(lookups) + (IF pc = "enrich" THEN 1 ELSE 0))

C13_Witness ==
    /\ ENABLE_DEDUPLICATION
    /\ pc = "enrich"
    /\ idx = 2
    /\ place_id = 3
    /\ seen_place_ids = {1, 2, 3, NoId}
    /\ IdsOf(lookups) = << 1, 2, NoId >>

\* C14: results is append-only - a step leaves it alone or adds one row at
\* its end - and at any time it has at most MAX_RESULTS_PER_CITY rows for
\* each place the main loop has taken so far.
C14_AppendOnlyBounded ==
    /\ [][ \/ results' = results
           \/ /\ Len(results') = Len(results) + 1
              /\ results' = Append(results, Last(results')) ]_vars
    /\ [](Len(results) <= idx * MAX_RESULTS_PER_CITY)

C14_Witness ==
    /\ idx = 1
    /\ pc = "loop"
    /\ Len(results) = 1 * MAX_RESULTS_PER_CITY
    /\ results[1].City = 1
    /\ Last(results).City = 1

\* C15: the search calls of a paginated or grid place are paced: no two of
\* them follow each other without a sleep in between; in the paginated search
\* the sleep before a continuation call comes after the response that carried
\* the call's token; in the grid search a sleep follows each call.
C15_Pacing ==
    pc \in {"paging", "Grid", "check"} /\ branch \in {"Paginated", "Grid"} =>
        /\ \A j \in 1..(Len(trace) - 1) :
             ~ (trace[j].op = "search" /\ trace[j + 1].op = "search")
        /\ branch = "Paginated" =>
             \A j \in DOMAIN trace :
                 trace[j].op = "search" /\ trace[j].page_token # NoToken =>
                     /\ j >= 3
                     /\ trace[j - 1].op = "sleep"
                     /\ trace[j - 2].op = "search"
                     /\ Len(received) >= (j - 1) \div 2
                     /\ received[(j - 1) \div 2].next_page_token
                          = trace[j].page_token
        /\ branch = "Grid" =>
             /\ Len(trace) = 2 * Len(Searches(trace))
             /\ \A j \in DOMAIN trace :
                  trace[j].op = (IF j % 2 = 1 THEN "search" ELSE "sleep")

C15_Witness ==
    /\ pc = "check"
    /\ branch = "Paginated"
    /\ Len(Searches(trace)) = 3
    /\ Len(trace) = 5
    /\ trace[5].page_token = 2

\* C16: the final table is written at most once, and only when the main loop
\* has gone through every place; a run ended by an exception has written no
\* table, and keeps the log entries and snapshots written before; the
\* snapshot of a place is written before any detail lookup for it.
C16_FinalWrite ==
    /\ [](excel <= 1)
    /\ [](excel = 1 => pc = "done" /\ idx = numPlaces)
    /\ [](pc = "crashed" => excel = 0)
    /\ [](\A j \in DOMAIN lookups : lookups[j].city \in snapshots)
    /\ [][ /\ excel' # excel =>
                /\ excel = 0
                /\ pc = "loop"
                /\ idx = numPlaces
           /\ pc = "done" \/ pc = "crashed" => UNCHANGED vars
           /\ Len(log) <= Len(log') /\ SubSeq(log', 1, Len(log)) = log
           /\ snapshots \subseteq snapshots'
           /\ snapshots' # snapshots =>
                /\ snapshots' = snapshots \cup {place.city}
                /\ LookupsOf(place.city) = << >>
                /\ lookups' = lookups
         ]_vars

C16_Witness ==
    /\ pc = "crashed"
    /\ idx = 2
    /\ excel = 0
    /\ Len(log) = 1
    /\ log[1].city = 1
    /\ snapshots = {2}
    /\ Len(lookups) = 3

\* C17: every loop of the script is bounded - each place is taken once, a
\* paginated search makes at most 3 calls, a grid search 9, each candidate
\* is visited once, a call makes at most 3 attempts - and a run that has its
\* credential stops nowhere but after the final write.
C17_ReachesFinalWrite ==
    /\ idx <= numPlaces
    /\ attempts <= 3
    /\ pc = "paging" => k <= 2 /\ Len(Searches(trace)) = k + 1
    /\ pc = "Grid" => k <= 9 /\ Len(Searches(trace)) = k
    /\ pc \in {"candidates", "enrich"} => i <= Len(raw_results) + 1
    /\ API_KEY /\ ~ ENABLED Next => pc = "done" /\ excel = 1

\* C18: the step that writes a skip entry, for whatever reason, changes
\* neither seen_place_ids nor results, writes no snapshot and issues no
\* lookup, and nothing of these has changed since the place was taken; a
\* place has at most one skip entry, and a place with a snapshot, a lookup or
\* a row has none.
C18_SkipLeavesState ==
    /\ [][ /\ log' # log =>
                /\ log' = Append(log, Last(log'))
                /\ Last(log').city = place'.city
                /\ Last(log').reason[1] \in { "Population below threshold",
                                              "API error",
                                              "No results returned" }
                /\ \A j \in DOMAIN log : log[j].city # place'.city
                /\ pc' = "loop"
                /\ seen_place_ids' = seen_place_ids
                /\ results' = results
                /\ snapshots' = snapshots
                /\ lookups' = lookups
           /\ pc \in {"Direct", "Paginated", "paging", "Grid", "check"}
              /\ pc' # "candidates" =>
                /\ seen_place_ids' = seen_place_ids
                /\ results' = results
                /\ snapshots' = snapshots
                /\ lookups' = lookups
           /\ pc = "loop" /\ pc' = "loop" =>
                /\ Len(log') = Len(log) + 1
                /\ seen_place_ids' = seen_place_ids
                /\ results' = results
         ]_vars
    /\ [](\A j \in DOMAIN log :
            /\ LookupsOf(log[j].city) = << >>
            /\ \A m \in DOMAIN results : results[m].City # log[j].city
            /\ log[j].city \notin snapshots
            /\ \A m \in DOMAIN log : log[m].city = log[j].city => m = j)
    /\ [](pc \in {"candidates", "enrich"} =>
            /\ place.city \in snapshots
            /\ \A j \in DOMAIN log : log[j].city # place.city)

C18_Witness ==
    /\ pc = "loop"
    /\ idx = 2
    /\ Len(log) = 1
    /\ log[1].city = 2
    /\ log[1].reason[1] = "API error"
    /\ nonEmptyPages = 2
    /\ seen_place_ids = {1, 2, 3, NoId}
    /\ Len(results) = 4

\* the script stands between two candidates, between two places or at its end
AtBoundary == pc \in {"candidates", "loop", "done"}

\* C19: with deduplication enabled, whenever the script stands between two
\* candidates, between two places or at its end, results has as many rows as
\* seen_place_ids has place_ids: the place_ids in the set are those a row was
\* made for, one row each.
C19_RowsMatchSeen ==
    ENABLE_DEDUPLICATION /\ AtBoundary =>
        /\ Len(results) = Cardinality(seen_place_ids)
        /\ Len(lookups) = Len(results)
        /\ Range(IdsOf(lookups)) = seen_place_ids
        /\ \A j \in DOMAIN results : results[j].City = lookups[j].city

C19_Witness ==
    /\ ENABLE_DEDUPLICATION
    /\ pc = "candidates"
    /\ raw_results = DupList
    /\ i = 4
    /\ seen_place_ids = {1, 2}
    /\ Len(results) = 2

\* C20: results without a place_id share one identity: the missing place_id
\* is put into seen_place_ids like any other, so with deduplication enabled
\* at most one such result is looked up and gets a row in the whole run, and
\* every later one, of whatever place, is dropped as a duplicate.
C20_MissingIdOnce ==
    /\ [](ENABLE_DEDUPLICATION =>
            /\ Cardinality({ j \in DOMAIN lookups :
                                lookups[j].place_id = NoId }) <= 1
            /\ NoId \in seen_place_ids <=>
                 \/ \E j \in DOMAIN lookups : lookups[j].place_id = NoId
                 \/ pc = "enrich" /\ place_id = NoId)
    /\ [][ ( /\ ENABLE_DEDUPLICATION
             /\ pc = "candidates"
             /\ i <= Len(raw_results)
             /\ raw_results[i] = NoId )
           => IF NoId \in seen_place_ids
                THEN /\ pc' = "candidates"
                     /\ i' = i + 1
                     /\ lookups' = lookups
                     /\ results' = results
                     /\ seen_place_ids' = seen_place_ids
                ELSE /\ pc' = "enrich"
                     /\ place_id' = NoId
                     /\ seen_place_ids' = seen_place_ids \cup {NoId} ]_vars

C20_Witness ==
    /\ ENABLE_DEDUPLICATION
    /\ idx = 2
    /\ pc = "candidates"
    /\ raw_results = DupList
    /\ i = 5
    /\ IdsOf(lookups) = << 1, 2, NoId, 3 >>
    /\ \A j \in DOMAIN lookups : lookups[j].city = 1

====
